---- MODULE Spec2Model ----
(***************************************************************************)
(* Model of src/buf_scsi.rs: OffsetScsiDevice, a byte-addressable,         *)
(* seekable stream over one partition of a block device, holding a single  *)
(* block in memory (block_buffer) with a needs_flush flag.                 *)
(*                                                                         *)
(* Integer widths are scaled down: usize (and u64/i64 of SeekFrom) is      *)
(* UsizeBits wide and u32 is U32Bits wide, with U32Bits < UsizeBits as on  *)
(* the 64-bit target.  Bytes range over 0..MaxByte.                        *)
(***************************************************************************)
EXTENDS Integers, Sequences, FiniteSets, TLC

\* ------------------------------------------------------------------ bounds
BlockBits == 1
NumBlocks == 2
U32Bits == 3
UsizeBits == 4
MaxByte == 1
MaxLen == 2
PartStart == 1
MaxFault == 3
MaxOff == 2

BlockSize == 2 ^ BlockBits
U32Mod == 2 ^ U32Bits
UsizeMod == 2 ^ UsizeBits
Byte == 0..MaxByte
DevSize == NumBlocks * BlockSize

RECURSIVE SeqsUpTo(_)
SeqsUpTo(n) ==
    IF n = 0 THEN {<<>>}
    ELSE LET shorter == SeqsUpTo(n - 1)
         IN shorter \cup {Append(q, b) : q \in {x \in shorter : Len(x) = n - 1}, b \in Byte}

\* ------------------------------------------------------------------- state
VARIABLES
    disk,                 \* the medium behind `device`: block index -> block content
    block_buffer,         \* <<>> (logically empty) or one full block
    partition_start,
    partition_idx,
    loaded_block_number,
    needs_flush,
    status,               \* "open", "dropped", "aborted"
    ret,                  \* what the last call returned to its caller
    out,                  \* output_buf[0..n] of the last read
    ioLog,                \* the device and buffer calls the last call made, in order
    lastOp                \* the last call

ToWrite == SeqsUpTo(MaxLen)

vars == <<disk, block_buffer, partition_start, partition_idx, loaded_block_number,
          needs_flush, status, ret, out, ioLog, lastOp>>

\* -------------------------------------------------------- external device
\* `as u32` of a usize value
ToU32(n) == n % U32Mod

DevHas(d, addr) == (addr \div BlockSize) \in DOMAIN d

\* device.read into an empty buffer: the block at addr, or nothing past the
\* end of the medium
DevRead(d, addr) == IF DevHas(d, addr) THEN d[addr \div BlockSize] ELSE <<>>

DevWrite(d, addr, data) == [d EXCEPT ![addr \div BlockSize] = data]

\* a fallible call fails when the fuel of the running call is 1
Fails(s) == s.fuel = 1
Tick(s) == IF s.fuel = 0 THEN 0 ELSE s.fuel - 1

\* ------------------------------------------------- OffsetScsiDevice (self)
Self(fuel, checks) ==
    [block_buffer |-> block_buffer, partition_idx |-> partition_idx,
     loaded_block_number |-> loaded_block_number, needs_flush |-> needs_flush,
     disk |-> disk, log |-> <<>>, fuel |-> fuel, overflow_checks |-> checks,
     res |-> "ok",
     slice |-> <<>>, out |-> <<>>, n |-> 0]

RawOverflows(s) == partition_start + s.partition_idx >= UsizeMod

raw_idx(s) == (partition_start + s.partition_idx) % UsizeMod

buffered_block_raw_idx(s) == BlockSize * s.loaded_block_number

cur_block_raw_idx(s) ==
    LET rel_offset == raw_idx(s) % BlockSize
        block_start == raw_idx(s) - rel_offset
    IN block_start

cur_block_number(s) == cur_block_raw_idx(s) \div BlockSize

offset_from_cur_block(s) == raw_idx(s) - cur_block_raw_idx(s)

\* flush that clears the flag without writing the block
flush_unwritten(s) == [s EXCEPT !.res = "ok", !.needs_flush = FALSE]

\* flush that clears the flag even when the device write fails
flush_forgetting(s) ==
    IF ~s.needs_flush THEN [s EXCEPT !.res = "ok"]
    ELSE LET addr == ToU32(buffered_block_raw_idx(s))
             call == [op |-> "write", addr |-> addr, data |-> s.block_buffer,
                      dirty |-> s.needs_flush, block |-> s.loaded_block_number]
         IN IF Fails(s) \/ ~DevHas(s.disk, addr)
            THEN [s EXCEPT !.res = "err", !.fuel = 0, !.needs_flush = FALSE,
                           !.log = Append(@, [call EXCEPT !.op = "write_failed"])]
            ELSE [s EXCEPT !.res = "ok", !.fuel = Tick(s),
                           !.disk = DevWrite(@, addr, s.block_buffer),
                           !.needs_flush = FALSE,
                           !.log = Append(@, call)]

flush(s) ==
    IF ~s.needs_flush THEN [s EXCEPT !.res = "ok"]
    ELSE LET addr == ToU32(buffered_block_raw_idx(s))
             call == [op |-> "write", addr |-> addr, data |-> s.block_buffer,
                      dirty |-> s.needs_flush, block |-> s.loaded_block_number]
         IN IF Fails(s) \/ ~DevHas(s.disk, addr)
            THEN [s EXCEPT !.res = "err", !.fuel = 0,
                           !.log = Append(@, [call EXCEPT !.op = "write_failed"])]
            ELSE [s EXCEPT !.res = "ok", !.fuel = Tick(s),
                           !.disk = DevWrite(@, addr, s.block_buffer),
                           !.needs_flush = FALSE,
                           !.log = Append(@, call)]

\* block_buffer.clear()
clear(s) ==
    LET call == [op |-> "clear", addr |-> 0, data |-> s.block_buffer,
                 dirty |-> s.needs_flush, block |-> s.loaded_block_number]
    IN IF Fails(s)
       THEN [s EXCEPT !.res = "err", !.fuel = 0]
       ELSE [s EXCEPT !.res = "ok", !.fuel = Tick(s), !.block_buffer = <<>>,
                      !.log = Append(@, call)]

\* lines 76-92: the device read into the empty buffer
load(s) ==
    LET block_idx == ToU32(cur_block_raw_idx(s))
        call == [op |-> "read", addr |-> block_idx, data |-> DevRead(s.disk, block_idx),
                 dirty |-> s.needs_flush, block |-> cur_block_number(s)]
    IN IF Fails(s)
       THEN [s EXCEPT !.res = "err", !.fuel = 0,
                      !.log = Append(@, [call EXCEPT !.op = "read_failed", !.data = <<>>])]
       ELSE [s EXCEPT !.res = "ok", !.fuel = Tick(s),
                      !.block_buffer = DevRead(s.disk, block_idx),
                      !.loaded_block_number = cur_block_number(s),
                      !.log = Append(@, call)]

\* evict with the flush left out
evict_unflushed(s) == clear(s)

\* evict that clears the buffer before it flushes
evict_clear_first(s) ==
    LET c == clear(s)
    IN IF c.res # "ok" THEN c ELSE flush(c)

\* lines 70-75: flush()? then clear()?
evict(s) ==
    LET f == flush(s)
    IN IF f.res # "ok" THEN f ELSE clear(f)

\* fill_buf that reloads the block whether or not it is the one in the buffer
fill_buf_reloading(s) ==
    IF RawOverflows(s) /\ s.overflow_checks THEN [s EXCEPT !.res = "panic"]
    ELSE LET a == evict(s)
         IN IF a.res # "ok" THEN a
            ELSE LET b == IF a.block_buffer = <<>> THEN load(a) ELSE a
                 IN IF b.res # "ok" THEN b
                    ELSE IF offset_from_cur_block(b) > Len(b.block_buffer)
                         THEN [b EXCEPT !.res = "panic"]
                         ELSE [b EXCEPT !.slice = SubSeq(b.block_buffer,
                                                         offset_from_cur_block(b) + 1,
                                                         Len(b.block_buffer))]

fill_buf(s) ==
    IF RawOverflows(s) /\ s.overflow_checks THEN [s EXCEPT !.res = "panic"]
    ELSE LET a == IF cur_block_number(s) # s.loaded_block_number THEN evict(s) ELSE s
         IN IF a.res # "ok" THEN a
            ELSE LET b == IF a.block_buffer = <<>> THEN load(a) ELSE a
                 IN IF b.res # "ok" THEN b
                    ELSE IF offset_from_cur_block(b) > Len(b.block_buffer)
                         THEN [b EXCEPT !.res = "panic"]
                         ELSE [b EXCEPT !.slice = SubSeq(b.block_buffer,
                                                         offset_from_cur_block(b) + 1,
                                                         Len(b.block_buffer))]

consume(s, amt) ==
    IF s.partition_idx + amt >= UsizeMod /\ s.overflow_checks
    THEN [s EXCEPT !.res = "panic"]
    ELSE [s EXCEPT !.partition_idx = (@ + amt) % UsizeMod]

RECURSIVE read(_, _)
read(s, needed_bytes) ==
    IF ~(s.n < needed_bytes) THEN s
    ELSE LET f == fill_buf(s)
         IN IF f.res # "ok" THEN f
            ELSE IF f.slice = <<>> THEN f
            ELSE LET c == consume([f EXCEPT !.out = Append(@, f.slice[1]), !.n = @ + 1], 1)
                 IN IF c.res # "ok" THEN c ELSE read(c, needed_bytes)

\* write that marks the buffer dirty whatever the byte
RECURSIVE write_marking(_, _)
write_marking(s, to_write) ==
    IF ~(s.n < Len(to_write)) THEN s
    ELSE LET f == fill_buf(s)
         IN IF f.res # "ok" THEN f
            ELSE IF f.block_buffer = <<>> THEN f
            ELSE LET block_offset == offset_from_cur_block(f)
                     w == [f EXCEPT !.block_buffer[block_offset + 1] = to_write[f.n + 1],
                                    !.needs_flush = TRUE]
                     c == consume([w EXCEPT !.n = @ + 1], 1)
                 IN IF c.res # "ok" THEN c ELSE write_marking(c, to_write)

\* write that changes the byte without marking the buffer
RECURSIVE write_unmarked(_, _)
write_unmarked(s, to_write) ==
    IF ~(s.n < Len(to_write)) THEN s
    ELSE LET f == fill_buf(s)
         IN IF f.res # "ok" THEN f
            ELSE IF f.block_buffer = <<>> THEN f
            ELSE LET block_offset == offset_from_cur_block(f)
                     w == [f EXCEPT !.block_buffer[block_offset + 1] = to_write[f.n + 1]]
                     c == consume([w EXCEPT !.n = @ + 1], 1)
                 IN IF c.res # "ok" THEN c ELSE write_unmarked(c, to_write)

RECURSIVE write(_, _)
write(s, to_write) ==
    IF ~(s.n < Len(to_write)) THEN s
    ELSE LET f == fill_buf(s)
         IN IF f.res # "ok" THEN f
            ELSE IF f.block_buffer = <<>> THEN f
            ELSE LET block_offset == offset_from_cur_block(f)
                     byte == to_write[f.n + 1]
                     w == IF f.block_buffer[block_offset + 1] # byte
                          THEN [f EXCEPT !.block_buffer[block_offset + 1] = byte,
                                         !.needs_flush = TRUE]
                          ELSE f
                     c == consume([w EXCEPT !.n = @ + 1], 1)
                 IN IF c.res # "ok" THEN c ELSE write(c, to_write)

\* seek that forgets the buffered block
seek_discarding(s, pos) ==
    IF pos.kind = "End" THEN [s EXCEPT !.res = "panic"]
    ELSE LET absr == IF pos.kind = "Start" THEN pos.off ELSE s.partition_idx + pos.off
         IN IF (absr < 0 \/ absr >= UsizeMod) /\ s.overflow_checks
            THEN [s EXCEPT !.res = "panic"]
            ELSE [s EXCEPT !.partition_idx = absr % UsizeMod, !.n = absr % UsizeMod,
                           !.block_buffer = <<>>, !.needs_flush = FALSE]

\* pos is [kind |-> "Start" | "Current" | "End", off |-> Int]
seek(s, pos) ==
    IF pos.kind = "Start" THEN [s EXCEPT !.partition_idx = pos.off, !.n = pos.off]
    ELSE IF pos.kind = "Current"
    THEN LET mag == IF pos.off < 0 THEN -pos.off ELSE pos.off
             absr == IF pos.off < 0 THEN s.partition_idx - mag ELSE s.partition_idx + mag
         IN IF (absr < 0 \/ absr >= UsizeMod) /\ s.overflow_checks
            THEN [s EXCEPT !.res = "panic"]
            ELSE [s EXCEPT !.partition_idx = absr % UsizeMod, !.n = absr % UsizeMod]
    ELSE [s EXCEPT !.res = "panic"]

\* the medium as a flat byte array
Flat(d) == [a \in 0..(DevSize - 1) |-> d[a \div BlockSize][(a % BlockSize) + 1]]

\* ----------------------------------------------------------------- actions
InitDisk == [b \in 0..(NumBlocks - 1) |-> [i \in 1..BlockSize |-> (b + i) % (MaxByte + 1)]]

Init ==
    /\ disk = InitDisk
    /\ block_buffer = <<>>
    /\ partition_start = PartStart
    /\ partition_idx = 0
    /\ loaded_block_number = 0
    /\ needs_flush = FALSE
    /\ status = "open"
    /\ ret = [kind |-> "none", val |-> 0]
    /\ out = <<>>
    /\ ioLog = <<>>
    /\ lastOp = "new"

\* what the environment does to one call: the fuel-th fallible device or
\* buffer call fails (0: none does), and arithmetic overflow panics (checks)
\* or wraps.  A call ends at its first failure or panic, so the two are drawn
\* one at a time.
Envs == {e \in [fuel : 0..MaxFault, checks : BOOLEAN] : e.fuel = 0 \/ ~e.checks}

OpNames(log) == [i \in 1..Len(log) |-> log[i].op]

\* Drop::drop: flush() with its result discarded
drop(s) == [flush(s) EXCEPT !.res = "ok"]

\* the object is gone (dropped, or the process aborted): only the medium and
\* what the caller saw remain
Gone(s, name, st) ==
    /\ disk' = s.disk
    /\ block_buffer' = <<>>
    /\ partition_idx' = 0
    /\ loaded_block_number' = 0
    /\ needs_flush' = FALSE
    /\ status' = st
    /\ ret' = [kind |-> IF name = "drop" THEN "none" ELSE "panic", val |-> 0]
    /\ out' = <<>>
    /\ ioLog' = OpNames(s.log)
    /\ lastOp' = name
    /\ UNCHANGED partition_start

\* the state left by a call that ended in s; a panic either aborts the
\* process or unwinds, which drops the object
Commit(s, name) ==
    IF s.res = "panic"
    THEN \/ Gone(s, name, "aborted")
         \/ \E fuel \in 0..1 : Gone(drop([s EXCEPT !.fuel = fuel]), name, "dropped")
    ELSE /\ disk' = s.disk
         /\ block_buffer' = s.block_buffer
         /\ partition_idx' = s.partition_idx
         /\ loaded_block_number' = s.loaded_block_number
         /\ needs_flush' = s.needs_flush
         /\ status' = status
         /\ ret' = [kind |-> s.res, val |-> IF s.res = "ok" THEN s.n ELSE 0]
         /\ out' = s.out
         /\ ioLog' = OpNames(s.log)
         /\ lastOp' = name
         /\ UNCHANGED partition_start

FillBuf ==
    /\ status = "open"
    /\ \E e \in Envs :
         LET s == fill_buf(Self(e.fuel, e.checks))
         IN Commit([s EXCEPT !.n = Len(s.slice)], "fill_buf")

Consume ==
    /\ status = "open"
    /\ \E amt \in 0..MaxLen, checks \in BOOLEAN :
         Commit(consume(Self(0, checks), amt), "consume")

Read ==
    /\ status = "open"
    /\ \E len \in 0..MaxLen, e \in Envs :
         Commit(read(Self(e.fuel, e.checks), len), "read")

Write ==
    /\ status = "open"
    /\ \E to_write \in ToWrite, e \in Envs :
         Commit(write(Self(e.fuel, e.checks), to_write), "write")

Flush ==
    /\ status = "open"
    /\ \E fuel \in 0..1 : Commit(flush(Self(fuel, FALSE)), "flush")

SeekStart ==
    /\ status = "open"
    /\ \E absr \in 0..(UsizeMod - 1) :
         Commit(seek(Self(0, FALSE), [kind |-> "Start", off |-> absr]), "seek_start")

SeekCurrent ==
    /\ status = "open"
    /\ \E off \in (-MaxOff)..MaxOff, checks \in BOOLEAN :
         Commit(seek(Self(0, checks), [kind |-> "Current", off |-> off]), "seek_current")

SeekEnd ==
    /\ status = "open"
    /\ Commit(seek(Self(0, FALSE), [kind |-> "End", off |-> 0]), "seek_end")

Drop ==
    /\ status = "open"
    /\ \E fuel \in 0..1 : Gone(drop(Self(fuel, FALSE)), "drop", "dropped")

Next ==
    \/ FillBuf
    \/ Consume
    \/ Read
    \/ Write
    \/ Flush
    \/ SeekStart
    \/ SeekCurrent
    \/ SeekEnd
    \/ Drop

Spec == Init /\ [][Next]_vars

\* The stream used inside its medium by a device that reports no error: the
\* cursor stays at or before the end of the medium and no call fails.
Confined == partition_start + partition_idx <= DevSize /\ ret.kind # "err"

NextInRange ==
    \/ FillBuf /\ Confined'
    \/ Consume /\ Confined'
    \/ Read /\ Confined'
    \/ Write /\ Confined'
    \/ Flush /\ Confined'
    \/ SeekStart /\ Confined'
    \/ SeekCurrent /\ Confined'
    \/ SeekEnd /\ Confined'
    \/ Drop /\ Confined'

SpecInRange == Init /\ [][NextInRange]_vars

\* ------------------------------------------------------------- properties
\* the byte at partition offset o as the stream presents it: the buffer's
\* where the buffer holds o's block, the medium's elsewhere
View(s, o) ==
    LET raw == partition_start + o
    IN IF s.block_buffer # <<>> /\ s.loaded_block_number = raw \div BlockSize
       THEN s.block_buffer[(raw % BlockSize) + 1]
       ELSE Flat(s.disk)[raw]

InRange == {o \in 0..(DevSize - 1) : partition_start + o < DevSize}

Has(log, op) == \E i \in 1..Len(log) : log[i] = op

\* the in-range offsets other than the n written from the cursor on
Untouched(n) == {o \in InRange : o < partition_idx \/ o >= partition_idx + n}

Kept(r, n) == \A o \in Untouched(n) : View(r, o) = View(Self(0, FALSE), o)

\* C1: round trip.  With the cursor at an in-range offset o, on a device that
\* reports no error: write([v]) returns 1 and makes v the byte presented at
\* o; read of one byte returns 1 byte, the byte presented at o; and no
\* flush, fill_buf, read or write changes the byte presented at any in-range
\* offset it does not write, whichever block it flushes or reloads.  Hence
\* seek(o); write([v]); ...; seek(o); read(1) yields v.
RoundTrip ==
    status = "open" =>
        LET S == Self(0, FALSE)
        IN /\ partition_idx \in InRange =>
                /\ \A v \in Byte :
                     LET w == write(S, <<v>>)
                     IN w.res = "ok" /\ w.n = 1 /\ View(w, partition_idx) = v
                /\ LET r == read(S, 1)
                   IN r.res = "ok" /\ r.n = 1 /\ r.out = <<View(S, partition_idx)>>
           /\ Kept(flush(S), 0)
           /\ Kept(fill_buf(S), 0)
           /\ \A len \in 0..MaxLen : Kept(read(S, len), 0)
           /\ \A to_write \in ToWrite :
                LET w == write(S, to_write) IN Kept(w, w.n)

\* C1 witness: a one-byte read that had to reload its block returned a byte the
\* medium did not hold at first, so a write put it there and a flush kept it
RoundTripWitness ==
    /\ lastOp = "read" /\ ret = [kind |-> "ok", val |-> 1]
    /\ Has(ioLog, "read")
    /\ partition_idx - 1 \in InRange
    /\ out # <<Flat(InitDisk)[partition_start + partition_idx - 1]>>

Writes(log) == {i \in 1..Len(log) : log[i].op \in {"write", "write_failed"}}
Reads(log) == {i \in 1..Len(log) : log[i].op \in {"read", "read_failed"}}

\* C2: block-boundary flush.  With a dirty block N in the buffer and the
\* cursor anywhere in block N+1, a buffer fill on a device that reports no
\* error issues exactly one device write, of the buffer's content to block
\* N's start address, before its device read of block N+1, and leaves
\* needs_flush false and loaded_block_number = N+1.
BlockBoundaryFlush ==
    (/\ status = "open" /\ needs_flush /\ block_buffer # <<>>
     /\ ~RawOverflows(Self(0, FALSE))
     /\ cur_block_number(Self(0, FALSE)) = loaded_block_number + 1) =>
        \A checks \in BOOLEAN :
            LET r == fill_buf(Self(0, checks))
            IN /\ Cardinality(Writes(r.log)) = 1
               /\ Cardinality(Reads(r.log)) = 1
               /\ \A i \in Writes(r.log), j \in Reads(r.log) :
                    /\ i < j
                    /\ r.log[i].op = "write"
                    /\ r.log[i].addr = BlockSize * loaded_block_number
                    /\ r.log[i].data = block_buffer
                    /\ r.log[j].addr = BlockSize * (loaded_block_number + 1)
               /\ ~r.needs_flush
               /\ r.loaded_block_number = loaded_block_number + 1

FillCalls ==
    {fill_buf(Self(e.fuel, e.checks)) : e \in Envs}
    \cup {read(Self(e.fuel, e.checks), len) : e \in Envs, len \in 0..MaxLen}
    \cup {write(Self(e.fuel, e.checks), to_write) : e \in Envs, to_write \in ToWrite}

\* a call with at least one byte to move, whose first fallible call fails
FirstCallFails ==
    {fill_buf(Self(1, FALSE))}
    \cup {read(Self(1, FALSE), len) : len \in 1..MaxLen}
    \cup {write(Self(1, FALSE), to_write) : to_write \in ToWrite \ {<<>>}}

\* C3: a dirty block is never evicted unflushed.  In every call that fills the
\* buffer, the buffer is cleared and the device is read only while needs_flush
\* is false; and when the fill must change blocks and the flush of the dirty
\* block fails, the call returns an error with the buffer, loaded_block_number
\* and needs_flush as they were and no device read issued.
NoDirtyEviction ==
    status = "open" =>
        /\ \A r \in FillCalls : \A i \in 1..Len(r.log) :
             r.log[i].op \in {"clear", "read", "read_failed"} => ~r.log[i].dirty
        /\ (/\ needs_flush /\ ~RawOverflows(Self(0, FALSE))
            /\ cur_block_number(Self(0, FALSE)) # loaded_block_number) =>
               \A r \in FirstCallFails :
                   /\ r.res = "err"
                   /\ r.block_buffer = block_buffer
                   /\ r.loaded_block_number = loaded_block_number
                   /\ r.needs_flush
                   /\ Reads(r.log) = {}
                   /\ OpNames(r.log) = <<"write_failed">>

\* C3 witness: a fill that had to change blocks returned the error of the
\* failed flush and the dirty block is still in the buffer
NoDirtyEvictionWitness ==
    /\ lastOp = "fill_buf" /\ ret.kind = "err" /\ ioLog = <<"write_failed">>
    /\ needs_flush /\ block_buffer # <<>>
    /\ cur_block_number(Self(0, FALSE)) # loaded_block_number

\* C4: no write is silently lost across disposal.  When the stream is dropped
\* and the flush of its dirty block fails, the failure is reported.
NoSilentLoss ==
    (lastOp = "drop" /\ status = "dropped" /\ Has(ioLog, "write_failed")) => ret.kind = "err"

\* C5: disposal flush.  Dropping the stream while needs_flush is set issues
\* exactly one device write, of the buffer at the start address of its block,
\* and dropping it otherwise issues no device call.
DisposalFlush ==
    status = "open" =>
        \A fuel \in 0..1 :
            LET r == drop(Self(fuel, FALSE))
            IN IF needs_flush
               THEN /\ Len(r.log) = 1
                    /\ r.log[1].op \in {"write", "write_failed"}
                    /\ r.log[1].addr = BlockSize * loaded_block_number
                    /\ r.log[1].data = block_buffer
               ELSE r.log = <<>>

\* the device has no data for the cursor's block, and a fill will ask it
AtEndOfMedium ==
    LET S == Self(0, FALSE)
    IN /\ ~RawOverflows(S)
       /\ DevRead(disk, ToU32(cur_block_raw_idx(S))) = <<>>
       /\ (block_buffer = <<>> \/ cur_block_number(S) # loaded_block_number)

\* C6: end of medium.  Where the device has no data for the cursor's block, a
\* read on a device that reports no error returns Ok(0), at every cursor
\* position, and leaves the stream where the next read does the same.
EndOfMedium ==
    (status = "open" /\ AtEndOfMedium) =>
        \A len \in 1..MaxLen, checks \in BOOLEAN :
            LET r == read(Self(0, checks), len)
            IN r.res = "ok" /\ r.n = 0 /\ r.out = <<>>
               /\ r.partition_idx = partition_idx

\* C7: a relative seek below zero fails with an error and leaves the cursor
\* where it was.
InvalidSeekFails ==
    status = "open" =>
        \A off \in (-MaxOff)..(-1), checks \in BOOLEAN :
            -off > partition_idx =>
                LET r == seek(Self(0, checks), [kind |-> "Current", off |-> off])
                IN r.res = "err" /\ r.partition_idx = partition_idx

\* C8: no-op write dirty suppression.  A write of the very bytes the stream
\* presents at the cursor (those a read of the same length returns) leaves
\* the buffer and needs_flush as that read leaves them: it never turns
\* needs_flush from false to true, and when the buffer was clean before it a
\* flush after it issues no device write.
NoOpWrite ==
    status = "open" =>
        \A len \in 1..MaxLen, e \in Envs :
            LET rd == read(Self(e.fuel, e.checks), len)
                wr == write(Self(e.fuel, e.checks), rd.out)
            IN (rd.res = "ok" /\ rd.n = len) =>
                   /\ wr.res = "ok" /\ wr.n = len
                   /\ wr.block_buffer = rd.block_buffer
                   /\ wr.needs_flush = rd.needs_flush
                   /\ wr.disk = rd.disk
                   /\ ~needs_flush =>
                        (~wr.needs_flush /\ flush([wr EXCEPT !.log = <<>>]).log = <<>>)

\* C8 witness: a write moved bytes, flushed nothing, and the buffer is clean
NoOpWriteWitness ==
    /\ lastOp = "write" /\ ret.kind = "ok" /\ ret.val >= 1
    /\ ~needs_flush /\ block_buffer # <<>> /\ ~Has(ioLog, "write")

\* C9: flush issues no device call when needs_flush is false; when it is true
\* it issues exactly one device write, of the whole buffer, at address
\* block_size * loaded_block_number, and on success clears needs_flush; and
\* every device write any call issues is that write of flush.
FlushContract ==
    status = "open" =>
        /\ \A fuel \in 0..1 :
             LET r == flush(Self(fuel, FALSE))
             IN IF ~needs_flush
                THEN r.log = <<>> /\ r.res = "ok"
                ELSE /\ Len(r.log) = 1
                     /\ r.log[1].op \in {"write", "write_failed"}
                     /\ r.log[1].addr = BlockSize * loaded_block_number
                     /\ r.log[1].data = block_buffer
                     /\ Len(block_buffer) = BlockSize
                     /\ r.res = "ok" => ~r.needs_flush
        /\ \A r \in FillCalls : \A i \in Writes(r.log) :
             /\ r.log[i].dirty
             /\ r.log[i].addr = BlockSize * r.log[i].block
             /\ Len(r.log[i].data) = BlockSize

SeekInputs ==
    {[kind |-> "Start", off |-> absr] : absr \in 0..(UsizeMod - 1)}
    \cup {[kind |-> "Current", off |-> off] : off \in (-MaxOff)..MaxOff}

\* C10: seek changes only the cursor.  A seek from the start or from the
\* current position issues no device or buffer call and leaves the buffer,
\* loaded_block_number, needs_flush and the medium as they were; when it
\* returns, it returns the new cursor, which is the position asked for.
SeekFrame ==
    status = "open" =>
        \A pos \in SeekInputs, checks \in BOOLEAN :
            LET r == seek(Self(0, checks), pos)
            IN /\ r.log = <<>>
               /\ r.block_buffer = block_buffer
               /\ r.loaded_block_number = loaded_block_number
               /\ r.needs_flush = needs_flush
               /\ r.disk = disk
               /\ r.res \in {"ok", "panic"}
               /\ r.res = "ok" =>
                    /\ r.n = r.partition_idx
                    /\ r.partition_idx =
                         (IF pos.kind = "Start" THEN pos.off ELSE partition_idx + pos.off) % UsizeMod
               /\ r.res = "panic" => r.partition_idx = partition_idx

\* C10 witness: a seek returned with the cursor in another block than the
\* dirty one still in the buffer
SeekFrameWitness ==
    /\ lastOp \in {"seek_start", "seek_current"}
    /\ ret = [kind |-> "ok", val |-> partition_idx]
    /\ needs_flush /\ block_buffer # <<>> /\ ioLog = <<>>
    /\ cur_block_number(Self(0, FALSE)) # loaded_block_number

\* what the device holds for the block in the buffer, at the address the
\* stream reads that block from and writes it to
DeviceBlock(s) == DevRead(s.disk, ToU32(buffered_block_raw_idx(s)))

\* the buffer holds a block whose content is not the device's
Diverged(s) == s.block_buffer # <<>> /\ s.block_buffer # DeviceBlock(s)

\* C11 (as stated): in every reachable state needs_flush is true if and only
\* if the buffer's content differs from the device's content of block
\* loaded_block_number.
DirtyIffDiverged ==
    status = "open" => (needs_flush <=> Diverged(Self(0, FALSE)))

\* C11 (amended): in every reachable state, and in the state every read,
\* write, fill_buf or flush ends in, a buffer whose content differs from the
\* device's content of its block has needs_flush set, so a clean buffer
\* equals the device's block.  The converse is not claimed: needs_flush is
\* set by a write that changes a byte and cleared only by a successful flush.
DivergedIsDirty ==
    status = "open" =>
        /\ Diverged(Self(0, FALSE)) => needs_flush
        /\ \A r \in FillCalls \cup {flush(Self(fuel, FALSE)) : fuel \in 0..1} :
             Diverged(r) => r.needs_flush

\* C11 witness: a write put a byte back to the value the device holds, and
\* the buffer, equal to the device's block again, is still marked
DivergedIsDirtyWitness ==
    /\ lastOp = "write" /\ ret.kind = "ok" /\ ret.val >= 1
    /\ needs_flush /\ block_buffer # <<>> /\ ~Diverged(Self(0, FALSE))

\* the buffer is logically empty or one whole block, and marked only when it
\* holds a block
Whole(s) ==
    /\ Len(s.block_buffer) \in {0, BlockSize}
    /\ s.needs_flush => s.block_buffer # <<>>

AllCalls ==
    FillCalls
    \cup {flush(Self(fuel, FALSE)) : fuel \in 0..1}
    \cup {seek(Self(0, checks), pos) : checks \in BOOLEAN, pos \in SeekInputs}

\* C12: from construction on, in every reachable state and in the state every
\* seek, read, write, fill_buf or flush ends in (failed device and buffer
\* calls included), needs_flush implies a non-empty buffer and the buffer's
\* length is 0 or BlockSize; so is every buffer handed to the device.
BufferWhole ==
    status = "open" =>
        /\ Whole(Self(0, FALSE))
        /\ \A r \in AllCalls :
             /\ Whole(r)
             /\ \A i \in 1..Len(r.log) :
                  /\ Len(r.log[i].data) \in {0, BlockSize}
                  /\ r.log[i].dirty => r.log[i].data # <<>>

\* C12 witness: a write flushed its dirty block, cleared the buffer and then
\* failed to read the next block; the buffer is left empty and unmarked
BufferWholeWitness ==
    /\ lastOp = "write" /\ ret.kind = "err"
    /\ Has(ioLog, "write") /\ Has(ioLog, "clear") /\ Has(ioLog, "read_failed")
    /\ block_buffer = <<>> /\ ~needs_flush

\* the logical partition view: the byte at partition offset o, the buffer's
\* where the buffer holds o's block, the medium's elsewhere, and none (-1)
\* past the end of the medium
Presented(s, o) ==
    LET raw == partition_start + o
    IN IF s.block_buffer # <<>> /\ s.loaded_block_number = raw \div BlockSize
       THEN s.block_buffer[(raw % BlockSize) + 1]
       ELSE IF raw < DevSize THEN Flat(s.disk)[raw] ELSE -1

\* C13: whenever write(to_write) returns Ok(n): n < len(to_write) only if the
\* buffer fill at cursor_before + n yielded an empty buffer; the cursor has
\* advanced by exactly n; and the n bytes of the logical partition view at
\* cursor_before .. cursor_before + n equal to_write[0..n].
WriteCount ==
    status = "open" =>
        \A to_write \in ToWrite, e \in Envs :
            LET w == write(Self(e.fuel, e.checks), to_write)
            IN w.res = "ok" =>
                 /\ w.n <= Len(to_write)
                 /\ w.n < Len(to_write) => (w.block_buffer = <<>> /\ w.slice = <<>>)
                 /\ w.partition_idx = partition_idx + w.n
                 /\ \A i \in 1..w.n : Presented(w, partition_idx + i - 1) = to_write[i]

\* C14: after every successful fill_buf, loaded_block_number is the block
\* number of the cursor and the slice returned is the buffer from the
\* intra-block offset on; the device is read only into an empty buffer (one
\* found empty or just cleared); and when the cursor's block is the non-empty
\* block in the buffer, fill_buf issues no device or buffer call and changes
\* nothing, whether needs_flush is set or not.
CacheHit ==
    status = "open" =>
        \A e \in Envs :
            LET S == Self(e.fuel, e.checks)
                r == fill_buf(S)
            IN /\ r.res = "ok" =>
                    /\ r.loaded_block_number = cur_block_number(r)
                    /\ r.partition_idx = partition_idx
                    /\ r.slice = SubSeq(r.block_buffer, offset_from_cur_block(r) + 1,
                                        Len(r.block_buffer))
               /\ Cardinality(Reads(r.log)) <= 1
               /\ \A i \in Reads(r.log) :
                    IF i = 1 THEN block_buffer = <<>> ELSE r.log[i - 1].op = "clear"
               /\ (/\ block_buffer # <<>> /\ ~(RawOverflows(S) /\ e.checks)
                   /\ cur_block_number(S) = loaded_block_number) =>
                      /\ r.res = "ok" /\ r.log = <<>>
                      /\ r.block_buffer = block_buffer /\ r.disk = disk
                      /\ r.needs_flush = needs_flush

\* C14 witness: a fill_buf found the cursor's block in the buffer, marked,
\* and returned its tail without a device call
CacheHitWitness ==
    /\ lastOp = "fill_buf" /\ ret.kind = "ok" /\ ret.val >= 1 /\ ioLog = <<>>
    /\ needs_flush /\ block_buffer # <<>>
    /\ cur_block_number(Self(0, FALSE)) = loaded_block_number

\* C15: offset translation.  For the partition start and every cursor, the
\* block start the code computes is floor((partition_start + cursor) /
\* block_size) * block_size, its block number is floor((partition_start +
\* cursor) / block_size), and its intra-block offset is (partition_start +
\* cursor) - block_start, in [0, block_size); the translation has no failure
\* mode.
OffsetTranslation ==
    status = "open" =>
        \A checks \in BOOLEAN :
            LET S == Self(0, checks)
                absolute_position == partition_start + partition_idx
                block_number == absolute_position \div BlockSize
                block_start == block_number * BlockSize
            IN /\ ~(RawOverflows(S) /\ checks)
               /\ cur_block_raw_idx(S) = block_start
               /\ cur_block_number(S) = block_number
               /\ offset_from_cur_block(S) = absolute_position - block_start
               /\ offset_from_cur_block(S) \in 0..(BlockSize - 1)

\* the calls that flush the block in the buffer when the device works: flush,
\* drop, and a fill_buf for another block
Retries(s) ==
    {flush(s), drop(s)}
    \cup {fill_buf([s EXCEPT !.partition_idx = o]) :
            o \in {p \in 0..(UsizeMod - 1) :
                     /\ partition_start + p < UsizeMod
                     /\ (partition_start + p) \div BlockSize # s.loaded_block_number}}

\* C16: when the device write of flush() fails, flush returns an error, the
\* medium, the buffer, loaded_block_number and needs_flush (true) are as
\* before, and a later flush, fill_buf for another block, or drop issues
\* first the same device write again: same address, same content.
FlushFailureKeeps ==
    (status = "open" /\ needs_flush) =>
        LET S == Self(1, FALSE)
            r == flush(S)
            again == [r EXCEPT !.fuel = 0, !.log = <<>>, !.res = "ok"]
        IN /\ r.res = "err"
           /\ r.needs_flush
           /\ r.block_buffer = block_buffer
           /\ r.loaded_block_number = loaded_block_number
           /\ r.disk = disk
           /\ Len(r.log) = 1 /\ r.log[1].op = "write_failed"
           /\ \A t \in Retries(again) :
                /\ Len(t.log) >= 1
                /\ t.log[1] = [r.log[1] EXCEPT !.op = "write"]
                /\ t.disk = DevWrite(disk, r.log[1].addr, block_buffer)

\* C16 witness: a flush returned an error and the block is still in the
\* buffer, marked
FlushFailureKeepsWitness ==
    /\ lastOp = "flush" /\ ret.kind = "err" /\ ioLog = <<"write_failed">>
    /\ needs_flush /\ block_buffer # <<>>

\* C17: every read(output_buf) runs at most len(output_buf) iterations, each
\* with at most one device write and one device read; it stops when the
\* output is full or fill_buf returns an empty slice; and when it returns
\* Ok(n) the cursor has advanced by exactly n and output_buf[0..n] holds the
\* n bytes of the logical partition view from the cursor's previous position.
ReadCount ==
    status = "open" =>
        \A len \in 0..MaxLen, e \in Envs :
            LET S == Self(e.fuel, e.checks)
                r == read(S, len)
            IN /\ r.n <= len
               /\ Cardinality(Writes(r.log)) <= len
               /\ Cardinality(Reads(r.log)) <= len
               /\ r.res = "ok" =>
                    /\ r.n = len \/ r.slice = <<>>
                    /\ r.partition_idx = partition_idx + r.n
                    /\ Len(r.out) = r.n
                    /\ \A i \in 1..r.n : r.out[i] = Presented(S, partition_idx + i - 1)

\* the ideal flat byte array a stream state stands for: the logical view at
\* every partition offset of the medium
Ideal(s) == [o \in InRange |-> Presented(s, o)]

\* the ideal array after the bytes of `bytes` are stored from offset `at` on
IdealWrite(arr, at, bytes) ==
    [o \in DOMAIN arr |->
        IF o >= at /\ o < at + Len(bytes) THEN bytes[o - at + 1] ELSE arr[o]]

\* C18: refinement of a flat byte array, on a device that never fails.  Every
\* seek, read, fill_buf and flush leaves the ideal array the state stands for
\* unchanged; a write that returns Ok(n) stores to_write[0..n] in it at the
\* cursor's positions, which are positions of the array; a read that returns
\* Ok(n) returns the array's n bytes at the cursor's positions; and after a
\* successful flush the medium alone is the ideal array.
FlatArrayRefinement ==
    status = "open" =>
        LET S == Self(0, FALSE)
            A == Ideal(S)
        IN /\ \A pos \in SeekInputs :
                LET r == seek(S, pos) IN r.res = "ok" => Ideal(r) = A
           /\ LET r == fill_buf(S) IN r.res = "ok" => Ideal(r) = A
           /\ LET r == flush(S)
              IN r.res = "ok" =>
                    /\ Ideal(r) = A
                    /\ \A o \in InRange : Flat(r.disk)[partition_start + o] = A[o]
           /\ \A len \in 0..MaxLen :
                LET r == read(S, len)
                IN r.res = "ok" =>
                     /\ Ideal(r) = A
                     /\ \A i \in 1..r.n :
                          /\ partition_idx + i - 1 \in InRange
                          /\ r.out[i] = A[partition_idx + i - 1]
           /\ \A to_write \in ToWrite :
                LET w == write(S, to_write)
                IN w.res = "ok" =>
                     /\ \A i \in 1..w.n : partition_idx + i - 1 \in InRange
                     /\ Ideal(w) = IdealWrite(A, partition_idx, SubSeq(to_write, 1, w.n))

\* the read and write calls of more than one byte, under every outcome of
\* their device and buffer calls
MultiByteCalls ==
    {read(Self(e.fuel, e.checks), len) : e \in Envs, len \in 2..MaxLen}
    \cup {write(Self(e.fuel, e.checks), to_write) :
            e \in Envs, to_write \in {w \in ToWrite : Len(w) >= 2}}

\* C19: a read or write of several bytes that returns an error because a
\* fill_buf failed after its first byte has had no effect: the cursor, the
\* buffer and needs_flush are as before the call.
FailedCallNoEffect ==
    status = "open" =>
        \A r \in MultiByteCalls :
            (r.res = "err" /\ r.n >= 1) =>
                /\ r.partition_idx = partition_idx
                /\ r.block_buffer = block_buffer
                /\ r.needs_flush = needs_flush

\* C20: the address of every device read and device write is the start of
\* the block it is for, block_size * block number, unchanged by the
\* conversion to u32.
AddressConversion ==
    status = "open" =>
        /\ ToU32(buffered_block_raw_idx(Self(0, FALSE))) =
               buffered_block_raw_idx(Self(0, FALSE))
        /\ ToU32(cur_block_raw_idx(Self(0, FALSE))) = cur_block_raw_idx(Self(0, FALSE))
        /\ \A r \in FillCalls \cup {drop(Self(fuel, FALSE)) : fuel \in 0..1} :
             \A i \in Reads(r.log) \cup Writes(r.log) :
                 r.log[i].addr = BlockSize * r.log[i].block

====
